---- MODULE Spec2Model ----
(***************************************************************************)
(* Pipe hydraulics calculator (src/flask_app.py): one Flask view,          *)
(* calculator(), serving GET / and POST /, and the helper                  *)
(* calculate_friction_factor().                                            *)
(*                                                                         *)
(* Numbers.  Python floats are modelled as decimal floating-point values   *)
(* with an eight-digit mantissa, s * m * 10^e with m in [10^7, 10^8) or    *)
(* m = 0, plus the IEEE specials inf, -inf and nan.  Every operation       *)
(* rounds its exact result to nearest, ties to even, as binary64 does; the *)
(* model's relative error per operation is below 10^-7 where binary64's is *)
(* below 2^-53.  The inputs of the model carry no exponent notation, so no *)
(* finite result leaves the binary64 range and OverflowError never arises. *)
(* Python complex values (the result of a negative float ** 0.25) are      *)
(* pairs of such floats.  Strings are sequences of one-character strings.  *)
(***************************************************************************)
EXTENDS Integers, Sequences, FiniteSets, TLC

(***************************************************************************)
(* Decimal floating point                                                  *)
(***************************************************************************)
E4 == 10 ^ 4
E7 == 10 ^ 7
E8 == 10 ^ 8
E9 == 10 ^ 9

Pow10(k) == 10 ^ k

\* q rounded up when the remainder r of a division by d is more than half,
\* or exactly half and q is odd
RoundHalfEven(q, r, d) ==
  IF 2 * r > d \/ (2 * r = d /\ q % 2 = 1) THEN q + 1 ELSE q

Zero(s) == [k |-> "fin", s |-> s, m |-> 0, e |-> 0]
Inf(s) == [k |-> "inf", s |-> s, m |-> 0, e |-> 0]
NaN == [k |-> "nan", s |-> 1, m |-> 0, e |-> 0]

RECURSIVE ScaleUp(_, _, _)
ScaleUp(s, m, e) ==
  IF m >= E7 THEN [k |-> "fin", s |-> s, m |-> m, e |-> e]
  ELSE ScaleUp(s, m * 10, e - 1)

\* the float nearest to s * m * 10^e, for 0 <= m < 2^31
Norm(s, m, e) ==
  IF m = 0 THEN Zero(s)
  ELSE IF m < E8 THEN ScaleUp(s, m, e)
  ELSE LET k == IF m >= E9 THEN 2 ELSE 1
           q == RoundHalfEven(m \div Pow10(k), m % Pow10(k), Pow10(k))
       IN IF q >= E8 THEN ScaleUp(s, q \div 10, e + k + 1)
          ELSE ScaleUp(s, q, e + k)

\* the float literal n * 10^e
Dec(n, e) == IF n < 0 THEN Norm(-1, -n, e) ELSE Norm(1, n, e)

IsNaN(x) == x.k = "nan"
IsInf(x) == x.k = "inf"
IsFin(x) == x.k = "fin"
IsZero(x) == x.k = "fin" /\ x.m = 0
IsNeg(x) == x.k # "nan" /\ x.s = -1 /\ ~IsZero(x)
Neg(x) == IF IsNaN(x) THEN x ELSE [x EXCEPT !.s = -x.s]
Abs(x) == IF IsNaN(x) THEN x ELSE [x EXCEPT !.s = 1]

\* the exact product a * b of two mantissas below 10^8, as <<hi, lo>> in base 10^8
Prod(a, b) ==
  LET a1 == a \div E4
      a0 == a % E4
      b1 == b \div E4
      b0 == b % E4
      cross == a1 * b0 + a0 * b1
      low == (cross % E4) * E4 + a0 * b0
  IN <<a1 * b1 + cross \div E4 + low \div E8, low % E8>>

\* the product <<hi, lo>> of two mantissas rounded to eight digits
MulRound(s, p, e) ==
  IF p[1] >= E7 THEN Norm(s, RoundHalfEven(p[1], p[2], E8), e + 8)
  ELSE Norm(s, RoundHalfEven(p[1] * 10 + p[2] \div E7, p[2] % E7, E7), e + 7)

\* x * y on floats
FMul(x, y) ==
  IF IsNaN(x) \/ IsNaN(y) THEN NaN
  ELSE IF IsInf(x) \/ IsInf(y)
    THEN IF IsZero(x) \/ IsZero(y) THEN NaN ELSE Inf(x.s * y.s)
  ELSE IF x.m = 0 \/ y.m = 0 THEN Zero(x.s * y.s)
  ELSE MulRound(x.s * y.s, Prod(x.m, y.m), x.e + y.e)

\* the n leading digits of a / b after the first, by long division:
\* <<quotient, remainder>>
RECURSIVE LongDiv(_, _, _, _)
LongDiv(q, r, b, n) ==
  IF n = 0 THEN <<q, r>>
  ELSE LongDiv(q * 10 + (r * 10) \div b, (r * 10) % b, b, n - 1)

\* the quotient and remainder <<q, r>> of a long division by b, rounded
DivRound(s, d, b, e) == Norm(s, RoundHalfEven(d[1], d[2], b), e)

\* x / y on floats as the C division computes it (IEEE 754: no exception)
FDiv(x, y) ==
  IF IsNaN(x) \/ IsNaN(y) THEN NaN
  ELSE IF IsInf(x) THEN IF IsInf(y) THEN NaN ELSE Inf(x.s * y.s)
  ELSE IF IsInf(y) THEN Zero(x.s * y.s)
  ELSE IF y.m = 0 THEN IF x.m = 0 THEN NaN ELSE Inf(x.s * y.s)
  ELSE IF x.m = 0 THEN Zero(x.s * y.s)
  ELSE IF x.m >= y.m
    THEN DivRound(x.s * y.s, LongDiv(x.m \div y.m, x.m % y.m, y.m, 7), y.m,
                  x.e - y.e - 7)
  ELSE DivRound(x.s * y.s, LongDiv(x.m \div y.m, x.m % y.m, y.m, 8), y.m,
                x.e - y.e - 8)

\* |x| < |y| for floats that are not nan
MagLt(x, y) ==
  IF IsInf(x) THEN FALSE
  ELSE IF IsInf(y) THEN TRUE
  ELSE IF y.m = 0 THEN FALSE
  ELSE IF x.m = 0 THEN TRUE
  ELSE x.e < y.e \/ (x.e = y.e /\ x.m < y.m)

\* x < y on floats: false when either is nan
FLt(x, y) ==
  IF IsNaN(x) \/ IsNaN(y) THEN FALSE
  ELSE IF IsNeg(x) THEN IF IsNeg(y) THEN MagLt(y, x) ELSE TRUE
  ELSE IF IsNeg(y) THEN FALSE ELSE MagLt(x, y)

\* x >= y on floats: false when either is nan
FGe(x, y) == ~IsNaN(x) /\ ~IsNaN(y) /\ ~FLt(x, y)

\* big + small for finite floats that are not zero, |big| >= |small|; sm is
\* the mantissa of small at the scale of big, with one guard digit
AddAligned(big, small, sm) ==
  IF big.s = small.s THEN Norm(big.s, big.m * 10 + sm, big.e - 1)
  ELSE IF big.m * 10 = sm THEN Zero(1)
  ELSE Norm(big.s, big.m * 10 - sm, big.e - 1)

AddOrdered(big, small) ==
  AddAligned(big, small,
             IF big.e - small.e > 9 THEN 0
             ELSE (small.m * 10) \div Pow10(big.e - small.e))

\* x + y on floats
FAdd(x, y) ==
  IF IsNaN(x) \/ IsNaN(y) THEN NaN
  ELSE IF IsInf(x) THEN IF IsInf(y) /\ x.s # y.s THEN NaN ELSE x
  ELSE IF IsInf(y) THEN y
  ELSE IF x.m = 0 THEN IF y.m = 0 THEN Zero(IF x.s = -1 /\ y.s = -1 THEN -1 ELSE 1)
                       ELSE y
  ELSE IF y.m = 0 THEN x
  ELSE IF MagLt(x, y) THEN AddOrdered(y, x)
  ELSE AddOrdered(x, y)

FSub(x, y) == FAdd(x, Neg(y))

\* <<hi, lo>> pairs in base 10^8 compared
PairLeq(p, q) == p[1] < q[1] \/ (p[1] = q[1] /\ p[2] <= q[2])

\* the s in [lo, hi) with s * s <= n < (s + 1) * (s + 1), n a pair
RECURSIVE SqrtSearch(_, _, _)
SqrtSearch(lo, hi, n) ==
  IF hi - lo <= 1 THEN lo
  ELSE LET mid == (lo + hi) \div 2
       IN IF PairLeq(Prod(mid, mid), n) THEN SqrtSearch(mid, hi, n)
          ELSE SqrtSearch(lo, mid, n)

\* the floor s of the square root of n, rounded to nearest
SqrtRound(n, s, sq, e) ==
  Norm(1, IF (n[1] - sq[1]) * E8 + n[2] - sq[2] > s THEN s + 1 ELSE s, e)

SqrtOf(n, s, e) == SqrtRound(n, s, Prod(s, s), e)

SqrtPair(n, e) == SqrtOf(n, SqrtSearch(E7, E8, n), e)

\* the square root of a finite float x > 0
FSqrt(x) ==
  IF x.e % 2 = 0 THEN SqrtPair(<<x.m, 0>>, (x.e - 8) \div 2)
  ELSE SqrtPair(<<x.m \div 10, (x.m % 10) * E7>>, (x.e - 7) \div 2)

\* C pow(x, 0.25) for a finite float x > 0
FRoot4(x) == FSqrt(FSqrt(x))

(***************************************************************************)
(* Python values: a float, a complex (a pair of floats) or a raised        *)
(* exception                                                               *)
(***************************************************************************)
Exc(name) == [k |-> "exc", name |-> name]
IsExc(v) == v.k = "exc"
Complex(re, im) == [k |-> "cplx", re |-> re, im |-> im]
IsComplex(v) == v.k = "cplx"
IsFloat(v) == v.k \in {"fin", "inf", "nan"}
ToComplex(v) == IF IsComplex(v) THEN v ELSE Complex(v, Zero(1))

\* complex * complex (Objects/complexobject.c, _Py_c_prod)
CProd(a, b) ==
  Complex(FSub(FMul(a.re, b.re), FMul(a.im, b.im)),
          FAdd(FMul(a.re, b.im), FMul(a.im, b.re)))

\* the two branches of _Py_c_quot, given ratio and denom
QuotByReal(a, ratio, denom) ==
  Complex(FDiv(FAdd(a.re, FMul(a.im, ratio)), denom),
          FDiv(FSub(a.im, FMul(a.re, ratio)), denom))

QuotByImag(a, ratio, denom) ==
  Complex(FDiv(FAdd(FMul(a.re, ratio), a.im), denom),
          FDiv(FSub(FMul(a.im, ratio), a.re), denom))

RatioReal(a, b, ratio) == QuotByReal(a, ratio, FAdd(b.re, FMul(b.im, ratio)))
RatioImag(a, b, ratio) == QuotByImag(a, ratio, FAdd(FMul(b.re, ratio), b.im))

\* complex / complex (Objects/complexobject.c, _Py_c_quot)
CQuot(a, b) ==
  IF FGe(Abs(b.re), Abs(b.im))
    THEN IF IsZero(b.re) THEN Exc("ZeroDivisionError")
         ELSE RatioReal(a, b, FDiv(b.im, b.re))
  ELSE IF FGe(Abs(b.im), Abs(b.re)) THEN RatioImag(a, b, FDiv(b.re, b.im))
  ELSE Complex(NaN, NaN)

\* x * y
PyMul(x, y) ==
  IF IsExc(x) THEN x
  ELSE IF IsExc(y) THEN y
  ELSE IF IsComplex(x) \/ IsComplex(y) THEN CProd(ToComplex(x), ToComplex(y))
  ELSE FMul(x, y)

\* x / y as IEEE 754 has it, a zero divisor giving inf or nan: what the
\* handler would compute were Python's own check for the zero divisor left out
PyDivIEEE(x, y) ==
  IF IsExc(x) THEN x
  ELSE IF IsExc(y) THEN y
  ELSE IF IsComplex(x) \/ IsComplex(y) THEN CQuot(ToComplex(x), ToComplex(y))
  ELSE FDiv(x, y)

\* x / y: a zero divisor raises where C would give inf or nan
PyDiv(x, y) ==
  IF IsExc(x) THEN x
  ELSE IF IsExc(y) THEN y
  ELSE IF IsComplex(x) \/ IsComplex(y) THEN CQuot(ToComplex(x), ToComplex(y))
  ELSE IF IsZero(y) THEN Exc("ZeroDivisionError")
  ELSE FDiv(x, y)

Two == Dec(2, 0)
Quarter == Dec(25, -2)
\* math.pi, and cos and sin of math.pi / 4
Pi == Dec(31415927, -7)
CosQuarterPi == Dec(70710678, -8)
SinQuarterPi == Dec(70710678, -8)

\* the complex of modulus len and phase pi / 4
QuarterTurn(len) == Complex(FMul(len, CosQuarterPi), FMul(len, SinQuarterPi))

\* x ** w for a float x and w = 2 or w = 0.25 (Objects/floatobject.c,
\* float_pow): a negative x to the power 0.25 is the complex power
\* (_Py_c_pow: modulus |x| ** 0.25, phase pi * 0.25)
PyPow(x, w) ==
  IF IsExc(x) THEN x
  ELSE IF IsNaN(x) THEN x
  ELSE IF IsInf(x) THEN Inf(1)
  ELSE IF IsZero(x) THEN Zero(1)
  ELSE IF w = Two THEN FMul(Abs(x), Abs(x))
  ELSE IF IsNeg(x) THEN QuarterTurn(FRoot4(Abs(x)))
  ELSE FRoot4(x)

(***************************************************************************)
(* Strings: float(str) and format(x, ".nf")                                *)
(***************************************************************************)
DigitChars == <<"0", "1", "2", "3", "4", "5", "6", "7", "8", "9">>
IsDigit(c) == \E i \in 1..10 : DigitChars[i] = c
DigitVal(c) == (CHOOSE i \in 1..10 : DigitChars[i] = c) - 1

RECURSIVE Digits(_)
Digits(n) ==
  IF n < 10 THEN <<DigitChars[n + 1]>>
  ELSE Append(Digits(n \div 10), DigitChars[(n % 10) + 1])

Zeros(n) == [i \in 1..n |-> "0"]

\* the mantissa and exponent read from the digits and the point of str,
\* from position i on: digits past the eighth significant one are dropped
RECURSIVE ReadDecimal(_, _, _, _, _)
ReadDecimal(str, i, m, e, seenDot) ==
  IF i > Len(str) THEN <<m, e>>
  ELSE IF str[i] = "." THEN ReadDecimal(str, i + 1, m, e, TRUE)
  ELSE IF m < E7
    THEN ReadDecimal(str, i + 1, m * 10 + DigitVal(str[i]),
                     IF seenDot THEN e - 1 ELSE e, seenDot)
  ELSE ReadDecimal(str, i + 1, m, IF seenDot THEN e ELSE e + 1, seenDot)

\* float(str): an optional sign, then inf, nan, or digits with at most one
\* point and at least one digit; anything else raises ValueError
ParseFloat(str) ==
  LET signed == Len(str) > 0 /\ str[1] \in {"+", "-"}
      sgn == IF signed /\ str[1] = "-" THEN -1 ELSE 1
      body == IF signed THEN SubSeq(str, 2, Len(str)) ELSE str
      dots == Cardinality({i \in 1..Len(body) : body[i] = "."})
      digs == Cardinality({i \in 1..Len(body) : IsDigit(body[i])})
  IN IF body = <<"i", "n", "f">> THEN Inf(sgn)
     ELSE IF body = <<"n", "a", "n">> THEN NaN
     ELSE IF digs >= 1 /\ dots <= 1 /\ digs + dots = Len(body)
       THEN LET me == ReadDecimal(body, 1, 0, 0, FALSE)
            IN Norm(sgn, me[1], me[2])
     ELSE Exc("ValueError")

\* the digits of |x| * 10^n rounded to an integer, x finite
FixedDigits(x, n) ==
  LET sh == x.e + n
  IN IF x.m = 0 THEN <<"0">>
     ELSE IF sh >= 0 THEN Digits(x.m) \o Zeros(sh)
     ELSE IF -sh > 8 THEN <<"0">>
     ELSE Digits(RoundHalfEven(x.m \div Pow10(-sh), x.m % Pow10(-sh), Pow10(-sh)))

\* format(x, ".nf") of a float
FormatFloat(x, n) ==
  IF IsNaN(x) THEN <<"n", "a", "n">>
  ELSE IF IsInf(x)
    THEN (IF x.s = -1 THEN <<"-">> ELSE <<>>) \o <<"i", "n", "f">>
  ELSE LET ds == FixedDigits(x, n)
           padded == IF Len(ds) < n + 1 THEN Zeros(n + 1 - Len(ds)) \o ds ELSE ds
           cut == Len(padded) - n
       IN (IF x.s = -1 THEN <<"-">> ELSE <<>>)
          \o SubSeq(padded, 1, cut)
          \o (IF n > 0 THEN <<".">> \o SubSeq(padded, cut + 1, Len(padded))
              ELSE <<>>)

\* format(v, ".nf") of a float or a complex: the complex form is the real
\* part, the imaginary part with its sign, and j
Format(v, n) ==
  IF IsComplex(v)
    THEN FormatFloat(v.re, n)
         \o (IF IsNaN(v.im) \/ v.im.s = 1 THEN <<"+">> ELSE <<>>)
         \o FormatFloat(v.im, n) \o <<"j">>
  ELSE FormatFloat(v, n)

(***************************************************************************)
(* The request handler                                                     *)
(***************************************************************************)
VARIABLES
  g,          \* module constant: gravity
  rho_water,  \* module constant: the default density
  mu_water,   \* module constant: the default viscosity
  req         \* per worker thread: the request it serves and calculator()'s locals

vars == <<g, rho_water, mu_water, req>>

None == [k |-> "none"]
IsNone(v) == v.k = "none"

WarningText == "Warning: Laminar flow (Re < 2100). Formula may not apply accurately."
ErrorText == "Please enter valid numbers."

Fields == {"L", "D", "Q", "rho", "mu"}
Absent == <<"(absent)">>

\* the form that holds the fields of vals that are not Absent
FormOf(vals) == [key \in {x \in Fields : vals[x] # Absent} |-> vals[key]]

\* request.form[key]: a missing key raises (werkzeug's BadRequestKeyError,
\* a KeyError)
FormItem(form, key) ==
  IF key \in DOMAIN form THEN [k |-> "str", str |-> form[key]]
  ELSE Exc("KeyError")

\* request.form.get(key) or default: an empty value gives way to the default
FormGetOrDefault(form, key, default) ==
  IF key \in DOMAIN form /\ form[key] # <<>> THEN [k |-> "str", str |-> form[key]]
  ELSE default

\* request.form.get(key, default)
FormGet(form, key, default) ==
  IF key \in DOMAIN form THEN [k |-> "str", str |-> form[key]] ELSE default

\* float(v) of a string or of a number
PyFloat(v) ==
  IF IsExc(v) THEN v
  ELSE IF v.k = "str" THEN ParseFloat(v.str)
  ELSE v

\* calculator()'s frame is the record of its locals, with the exception that is
\* propagating, if any, in raised.  A statement changes the frame: once an
\* exception is raised the statements that follow in the block are skipped.
Assign(s, name, v) ==
  IF ~IsNone(s.raised) THEN s
  ELSE IF IsExc(v) THEN [s EXCEPT !.raised = v]
  ELSE [s EXCEPT ![name] = v]

\* lines 23-27: the five fields read and converted, in this order
Line23(s, rhoDefault, muDefault) == Assign(s, "L", PyFloat(FormItem(s.form, "L")))
Line24(s, rhoDefault, muDefault) == Assign(s, "D", PyFloat(FormItem(s.form, "D")))
Line25(s, rhoDefault, muDefault) == Assign(s, "Q", PyFloat(FormItem(s.form, "Q")))
Line26(s, rhoDefault, muDefault) ==
  Assign(s, "rho", PyFloat(FormGet(s.form, "rho", rhoDefault)))
Line27(s, rhoDefault, muDefault) ==
  Assign(s, "mu", PyFloat(FormGet(s.form, "mu", muDefault)))

ParseFields(s, rhoDefault, muDefault) ==
  Line27(Line26(Line25(Line24(Line23(s, rhoDefault, muDefault),
                              rhoDefault, muDefault),
                       rhoDefault, muDefault),
                rhoDefault, muDefault),
         rhoDefault, muDefault)

\* the onset of turbulent flow in place of the laminar limit
LaminarLimit4000 == Dec(4000, 0)
LaminarLimit == Dec(2100, 0)
BlasiusCoefficient == Dec(3164, -4)

\* lines 12-14
LaminarWarning(Re) == IF FLt(Re, LaminarLimit) THEN WarningText ELSE ""

\* line 16: the pair returned, unless line 15 raised
ReturnPair(f, warning) ==
  IF IsExc(f) THEN f ELSE [k |-> "pair", f |-> f, warning |-> warning]

\* lines 11-16
calculate_friction_factor(Re) ==
  ReturnPair(PyDiv(BlasiusCoefficient, PyPow(Re, Quarter)), LaminarWarning(Re))

\* f, warning = <pair>
AssignPair(s, pair) ==
  IF ~IsNone(s.raised) THEN s
  ELSE IF IsExc(pair) THEN [s EXCEPT !.raised = pair]
  ELSE [s EXCEPT !.f = pair.f, !.warning = pair.warning]

\* lines 29-34
Line29(s, gv) == Assign(s, "A", PyMul(Pi, PyPow(PyDiv(s.D, Two), Two)))
Line30(s, gv) == Assign(s, "V", PyDiv(s.Q, s.A))
Line31(s, gv) == Assign(s, "Re", PyDiv(PyMul(PyMul(s.rho, s.V), s.D), s.mu))
Line32(s, gv) == AssignPair(s, calculate_friction_factor(s.Re))
\* the head loss with the velocity head V ** 2 / g
Line33VelocityHeadG(s, gv) ==
  Assign(s, "hf", PyMul(PyMul(s.f, PyDiv(s.L, s.D)), PyDiv(PyPow(s.V, Two), gv)))
Line33(s, gv) ==
  Assign(s, "hf", PyMul(PyMul(s.f, PyDiv(s.L, s.D)),
                        PyDiv(PyPow(s.V, Two), PyMul(Two, gv))))
\* the pressure drop without g
Line34WithoutG(s, gv) == Assign(s, "delta_P", PyMul(s.rho, s.hf))
Line34(s, gv) == Assign(s, "delta_P", PyMul(PyMul(s.rho, gv), s.hf))

Compute(s, gv) ==
  Line34(Line33(Line32(Line31(Line30(Line29(s, gv), gv), gv), gv), gv), gv)

Thousand == Dec(1000, 0)

\* lines 36-43
ResultRecord(V, Re, f, hf, delta_P, warning) ==
  [k |-> "result",
   V |-> Format(V, 3) \o <<" ", "m", "/", "s">>,
   Re |-> Format(Re, 0),
   f |-> Format(f, 4),
   hf |-> Format(hf, 3) \o <<" ", "m">>,
   delta_P |-> Format(delta_P, 0) \o <<" ", "P", "a", " ", "(">>
               \o Format(PyDiv(delta_P, Thousand), 2) \o <<" ", "k", "P", "a", ")">>,
   warning |-> warning]

\* line 45
ErrorRecord == [k |-> "error", error |-> ErrorText]

\* lines 48-115: the page the template renders for results. The form is always
\* there; the results block only for a results that is not None, and in it
\* either the error alert or the result box, the latter with the warning alert
\* when the warning is not empty
Page(results) ==
  [inputForm |-> TRUE,
   resultsBlock |-> ~IsNone(results),
   errorAlert |-> IF results.k = "error" THEN results.error ELSE "",
   resultBox |-> IF results.k = "result"
                   THEN [k |-> "box", V |-> results.V, Re |-> results.Re,
                         f |-> results.f, hf |-> results.hf,
                         delta_P |-> results.delta_P]
                   ELSE None,
   warningAlert |-> IF results.k = "result" THEN results.warning ELSE ""]

NoPage == [inputForm |-> FALSE, resultsBlock |-> FALSE, errorAlert |-> "",
           resultBox |-> None, warningAlert |-> ""]

\* what the client gets: the rendered page, or Flask's answer to an exception
\* that leaves calculator()
Response(status, fault, page) == [status |-> status, fault |-> fault, page |-> page]
NoResponse == Response(0, "", NoPage)
FaultResponse(exc) ==
  Response(IF exc.name = "KeyError" THEN 400 ELSE 500, exc.name, NoPage)

Idle ==
  [pc |-> "idle", method |-> "", form |-> FormOf([x \in Fields |-> Absent]),
   L |-> None, D |-> None, Q |-> None, rho |-> None, mu |-> None,
   A |-> None, V |-> None, Re |-> None, f |-> None, warning |-> "None",
   hf |-> None, delta_P |-> None, results |-> None, raised |-> None,
   response |-> NoResponse]

(***************************************************************************)
(* Requests                                                                *)
(***************************************************************************)
NumThreads == 2
Threads == 1..NumThreads

Form(l, d, q, r, m) == FormOf([L |-> l, D |-> d, Q |-> q, rho |-> r, mu |-> m])

\* the template's prefilled values (lines 72-88)
FormL == <<"1", "0", "0">>
FormD == <<"0", ".", "1">>
FormQ == <<"0", ".", "0", "1">>
FormRho == <<"1", "0", "0", "0">>
FormMu == <<"0", ".", "0", "0", "1">>

\* the forms of the requests served concurrently
SmallForms ==
  {Form(FormL, FormD, FormQ, r, m) : r \in {Absent, FormRho}, m \in {Absent, FormMu}}
  \cup {Form(Absent, FormD, FormQ, FormRho, FormMu),
        Form(FormL, <<"0">>, FormQ, FormRho, FormMu),
        Form(FormL, FormD, FormQ, <<>>, FormMu),
        Form(FormL, FormD, FormQ, <<"9", "9", "8", ".", "2">>, Absent)}

\* field values of the requests served one at a time
WideValues ==
  [L : {Absent, FormL, <<"-", "1", "0", "0">>, <<"a", "b", "c">>,
        <<"2", "5", "0", ".", "5">>, <<"i", "n", "f">>},
   D : {Absent, FormD, <<"0">>, <<"-", "0", ".", "1">>,
        <<"0", ".", "0", "5">>, <<"0", ".", "1", ".">>},
   Q : {Absent, FormQ, <<"0">>, <<"0", ".", "0", "0", "0", "1">>,
        <<"0", ".", "0", "0", "0", "2">>, <<"n", "a", "n">>, <<>>},
   rho : {Absent, FormRho, <<"0">>, <<"9", "9", "8", ".", "2">>,
          <<"-", "1", "0", "0", "0">>, <<"a", "b", "c">>},
   mu : {Absent, FormMu, <<"0">>, <<"0", ".", "0", "0", "0", "8", "9">>, <<"-">>}]

WideForms == {FormOf(v) : v \in WideValues}

\* a browser's GET carries no form; one that does shows the form is not read
GetForms == {FormOf([x \in Fields |-> Absent]), Form(FormL, FormD, FormQ, FormRho, FormMu)}

\* an except clause for another exception
CaughtTypeError(exc) == exc.name = "TypeError"

\* the except clause of line 44
Caught(exc) == exc.name = "ValueError"

Serve(t, r) ==
  /\ req' = [req EXCEPT ![t] = r]
  /\ UNCHANGED <<g, rho_water, mu_water>>

\* a request arrives and calculator() starts: line 20
Receive(t, method, form) ==
  /\ req[t].pc = "idle"
  /\ Serve(t, [Idle EXCEPT !.pc = "start", !.method = method, !.form = form])

\* line 21, not a POST: straight to the template
SkipForm(t) ==
  /\ req[t].pc = "start"
  /\ req[t].method # "POST"
  /\ Serve(t, [req[t] EXCEPT !.pc = "render"])

\* where a block of the try body leaves the frame s: at the next block, in the
\* except clause (lines 44-45), or out of calculator() with the exception
AfterBlock(s, next) ==
  IF IsNone(s.raised) THEN [s EXCEPT !.pc = next]
  ELSE IF Caught(s.raised)
    THEN [s EXCEPT !.pc = "render", !.raised = None, !.results = ErrorRecord]
  ELSE [s EXCEPT !.pc = "done", !.response = FaultResponse(s.raised)]

\* the fields read whatever the method: the handler without the test of line 21
ParseFormAnyMethod(t) ==
  /\ req[t].pc = "start"
  /\ Serve(t, AfterBlock(ParseFields(req[t], rho_water, mu_water), "parsed"))

\* lines 21-27 and 44-45, a POST: the fields are read and converted
ParseForm(t) ==
  /\ req[t].pc = "start"
  /\ req[t].method = "POST"
  /\ Serve(t, AfterBlock(ParseFields(req[t], rho_water, mu_water), "parsed"))

\* the arithmetic, with the density of this request kept as the default of the next
CalculateKeepDensity(t) ==
  /\ req[t].pc = "parsed"
  /\ req' = [req EXCEPT ![t] = AfterBlock(Compute(req[t], g), "computed")]
  /\ rho_water' = req[t].rho
  /\ UNCHANGED <<g, mu_water>>

\* lines 29-34 and 44-45: the arithmetic
Calculate(t) ==
  /\ req[t].pc = "parsed"
  /\ Serve(t, AfterBlock(Compute(req[t], g), "computed"))

\* lines 36-43: the results formatted
FormatResults(t) ==
  /\ req[t].pc = "computed"
  /\ Serve(t, [req[t] EXCEPT !.pc = "render",
                             !.results = ResultRecord(req[t].V, req[t].Re, req[t].f,
                                                      req[t].hf, req[t].delta_P,
                                                      req[t].warning)])

\* line 115: the page rendered and returned
Render(t) ==
  /\ req[t].pc = "render"
  /\ Serve(t, [req[t] EXCEPT !.pc = "done",
                             !.response = Response(200, "", Page(req[t].results))])

\* the response is sent and the request's locals are gone
Finish(t) ==
  /\ req[t].pc = "done"
  /\ Serve(t, Idle)

Init ==
  /\ g = Dec(981, -2)
  /\ rho_water = Dec(1000, 0)
  /\ mu_water = Dec(1, -3)
  /\ req = [t \in Threads |-> Idle]

\* the worker threads of the server serve requests concurrently
Next ==
  \E t \in Threads :
    \/ \E form \in SmallForms : Receive(t, "POST", form)
    \/ \E form \in GetForms : Receive(t, "GET", form)
    \/ SkipForm(t)
    \/ ParseForm(t)
    \/ Calculate(t)
    \/ FormatResults(t)
    \/ Render(t)
    \/ Finish(t)

Spec == Init /\ [][Next]_vars

\* one thread serves one request after the other, over a wide range of forms
NextCalc ==
  \/ \E form \in WideForms : Receive(1, "POST", form)
  \/ \E form \in GetForms : Receive(1, "GET", form)
  \/ SkipForm(1)
  \/ ParseForm(1)
  \/ Calculate(1)
  \/ FormatResults(1)
  \/ Render(1)
  \/ Finish(1)

SpecCalc == Init /\ [][NextCalc]_vars

(***************************************************************************)
(* Properties                                                              *)
(***************************************************************************)
Required == {"L", "D", "Q"}
RequiredPresent(form) == Required \subseteq DOMAIN form

\* some supplied field is not the text of a number
SomeUnparsable(form) == \E key \in DOMAIN form : IsExc(ParseFloat(form[key]))

\* lines 23-27 ran to the end: all five fields are floats
AllParsed(r) ==
  IsFloat(r.L) /\ IsFloat(r.D) /\ IsFloat(r.Q) /\ IsFloat(r.rho) /\ IsFloat(r.mu)

\* lines 29-34 have been run: the request is past the arithmetic
Calculated(r) == AllParsed(r) /\ r.pc \in {"computed", "render", "done"}

NothingComputed(r) ==
  IsNone(r.V) /\ IsNone(r.Re) /\ IsNone(r.f) /\ IsNone(r.hf) /\ IsNone(r.delta_P)

FormOnlyPage ==
  [inputForm |-> TRUE, resultsBlock |-> FALSE, errorAlert |-> "",
   resultBox |-> None, warningAlert |-> ""]

ErrorPage ==
  [inputForm |-> TRUE, resultsBlock |-> TRUE,
   errorAlert |-> "Please enter valid numbers.", resultBox |-> None,
   warningAlert |-> ""]

\* C1: a POST whose fields all parse and whose computation completes carries
\* the laminar warning, with its exact text, in the result record and in the
\* rendered page if and only if the computed Re is below 2100; otherwise the
\* warning is the empty string and no warning block is rendered.
C1_WarningIffLaminar ==
  \A t \in Threads :
    LET r == req[t]
        text == IF FLt(r.Re, Dec(2100, 0))
                  THEN "Warning: Laminar flow (Re < 2100). Formula may not apply accurately."
                  ELSE ""
    IN r.method = "POST" /\ r.results.k = "result"
         => /\ r.results.warning = text
            /\ r.pc = "done" => r.response.status = 200
                                /\ r.response.page.warningAlert = text

\* a result in the transitional band, 2100 <= Re < 4000, rendered without warning
C1_Witness ==
  \E t \in Threads :
    /\ req[t].pc = "done"
    /\ req[t].results.k = "result"
    /\ FGe(req[t].Re, Dec(2100, 0))
    /\ FLt(req[t].Re, Dec(4000, 0))
    /\ req[t].response.page.warningAlert = ""

\* C2: a POST with L, D and Q present in which some supplied field is not a
\* number ends in the error record alone: nothing is computed, and the page
\* shows the message and no result, whichever field failed and whatever the
\* other fields hold.
C2_ParseErrorOnly ==
  \A t \in Threads :
    LET r == req[t]
    IN r.method = "POST" /\ RequiredPresent(r.form) /\ SomeUnparsable(r.form)
         => /\ r.pc \in {"start", "render", "done"}
            /\ NothingComputed(r)
            /\ r.pc \in {"render", "done"}
                 => r.results = [k |-> "error", error |-> "Please enter valid numbers."]
            /\ r.pc = "done" => r.response = Response(200, "", ErrorPage)

\* the error page for a form whose viscosity is not a number and whose diameter is 0
C2_Witness ==
  \E t \in Threads :
    /\ req[t].pc = "done"
    /\ req[t].method = "POST"
    /\ RequiredPresent(req[t].form)
    /\ "mu" \in DOMAIN req[t].form
    /\ IsExc(ParseFloat(req[t].form["mu"]))
    /\ IsZero(req[t].D)
    /\ req[t].response.page = ErrorPage

\* C3: a POST in which a required field (L, D or Q) is missing ends like a
\* parse failure: the error record, rendered in the page, whatever the other
\* fields hold, and never a fault or another response.
C3_MissingFieldIsParseError ==
  \A t \in Threads :
    LET r == req[t]
    IN r.method = "POST" /\ ~RequiredPresent(r.form) /\ r.pc = "done"
         => /\ r.results = [k |-> "error", error |-> "Please enter valid numbers."]
            /\ r.response = Response(200, "", ErrorPage)

\* the form with the defaults of rho and mu written out where they are absent
WithDefaults(form) ==
  [key \in DOMAIN form \cup {"rho", "mu"} |->
     IF key \in DOMAIN form THEN form[key]
     ELSE IF key = "rho" THEN <<"1", "0", "0", "0">>
     ELSE <<"0", ".", "0", "0", "1">>]

ValidRequired(form) ==
  RequiredPresent(form) /\ \A key \in Required : ~IsExc(ParseFloat(form[key]))

\* C4: for a POST with valid L, D, Q, an absent rho is 1000 and an absent mu
\* is 0.001, so the outcome is that of the same POST with "1000" and "0.001"
\* supplied; a key that is present is converted itself and the default is
\* never put in its place.
C4_Defaults ==
  /\ \A t, u \in Threads :
       /\ req[t].method = "POST" /\ req[u].method = "POST"
       /\ ValidRequired(req[t].form)
       /\ req[u].form = WithDefaults(req[t].form)
       /\ req[t].pc = "done" /\ req[u].pc = "done"
       => /\ req[t].response = req[u].response
          /\ req[t].results = req[u].results
          /\ req[t].rho = req[u].rho
          /\ req[t].mu = req[u].mu
  /\ \A t \in Threads :
       LET r == req[t]
       IN r.method = "POST" /\ ValidRequired(r.form) /\ r.pc # "start"
            => /\ "rho" \notin DOMAIN r.form => r.rho = Dec(1000, 0)
               /\ "rho" \in DOMAIN r.form
                    => IF IsExc(ParseFloat(r.form["rho"]))
                         THEN IsNone(r.rho) /\ r.results.k = "error"
                         ELSE r.rho = ParseFloat(r.form["rho"])
               /\ IsFloat(r.rho) /\ "mu" \notin DOMAIN r.form => r.mu = Dec(1, -3)
               /\ IsFloat(r.rho) /\ "mu" \in DOMAIN r.form
                    => IF IsExc(ParseFloat(r.form["mu"]))
                         THEN IsNone(r.mu) /\ r.results.k = "error"
                         ELSE r.mu = ParseFloat(r.form["mu"])

\* two finished requests, one without rho and mu and one with the defaults
\* written out, both with a result
C4_Witness ==
  \E t, u \in Threads :
    /\ req[t].pc = "done" /\ req[u].pc = "done"
    /\ req[t].method = "POST" /\ req[u].method = "POST"
    /\ DOMAIN req[t].form = Required
    /\ req[u].form = WithDefaults(req[t].form)
    /\ req[t].results.k = "result"
    /\ req[t].results = req[u].results

ZeroDivisionFault == Response(500, "ZeroDivisionError", NoPage)

\* C5: a POST whose five fields all parse and in which D = 0, mu = 0 or the
\* computed Re = 0 fails with a division by zero: no result record is made,
\* with inf or nan in it or otherwise, and the failure is not turned into the
\* error message but leaves the handler as a fault.
C5_DivisionByZeroFault ==
  \A t \in Threads :
    LET r == req[t]
    IN /\ r.method = "POST"
       /\ AllParsed(r)
       /\ r.pc # "parsed"
       /\ IsZero(r.D) \/ IsZero(r.mu) \/ IsZero(r.Re)
       => /\ r.pc = "done"
          /\ r.raised = Exc("ZeroDivisionError")
          /\ r.response = ZeroDivisionFault
          /\ r.results = None
          /\ IsNone(r.f) /\ IsNone(r.hf) /\ IsNone(r.delta_P)

\* the fault of a request whose D and mu are not zero and whose Re is
C5_Witness ==
  \E t \in Threads :
    /\ req[t].pc = "done"
    /\ AllParsed(req[t])
    /\ ~IsZero(req[t].D) /\ ~IsZero(req[t].mu)
    /\ IsZero(req[t].Re)
    /\ req[t].response = ZeroDivisionFault

SomeNegative(r) ==
  IsNeg(r.L) \/ IsNeg(r.D) \/ IsNeg(r.Q) \/ IsNeg(r.rho) \/ IsNeg(r.mu)

\* C6: a POST whose five fields all parse and one of which is negative fails:
\* no result (V, Re, f, hf, delta_P) is computed, recorded or rendered for it.
C6_NegativeInputFails ==
  \A t \in Threads :
    LET r == req[t]
    IN r.method = "POST" /\ Calculated(r) /\ SomeNegative(r)
         => /\ IsNone(r.delta_P)
            /\ r.results.k # "result"
            /\ r.response.page.resultBox = None

\* C7: a GET never reads the form and never runs the computation: results
\* stays None and the page is the input form alone, with neither a results
\* block nor an error, whatever came before and whatever else is being served.
C7_GetFormOnly ==
  \A t \in Threads :
    LET r == req[t]
    IN r.method = "GET"
         => /\ r.pc \in {"start", "render", "done"}
            /\ ~AllParsed(r) /\ IsNone(r.L) /\ IsNone(r.D) /\ IsNone(r.Q)
            /\ IsNone(r.rho) /\ IsNone(r.mu) /\ IsNone(r.A) /\ NothingComputed(r)
            /\ r.results = None /\ r.raised = None
            /\ r.pc = "done" => r.response = Response(200, "", FormOnlyPage)

\* a GET that carries a filled form, answered while a POST's result is out
C7_Witness ==
  \E t, u \in Threads :
    /\ req[t].pc = "done" /\ req[t].method = "GET"
    /\ RequiredPresent(req[t].form)
    /\ req[t].response.page = FormOnlyPage
    /\ req[u].pc = "done" /\ req[u].results.k = "result"

\* C8: no request writes state shared between requests (g, rho_water and
\* mu_water keep their values), and under any interleaving the outcome of a
\* request depends on its own method and form only: two requests with the
\* same method and form end with the same results and the same response.
C8_Independent ==
  /\ g = Dec(981, -2)
  /\ rho_water = Dec(1000, 0)
  /\ mu_water = Dec(1, -3)
  /\ \A t, u \in Threads :
       /\ req[t].pc = "done" /\ req[u].pc = "done"
       /\ req[t].method = req[u].method
       /\ req[t].form = req[u].form
       => /\ req[t].results = req[u].results
          /\ req[t].response = req[u].response

\* two requests with the same form and no rho, finished side by side with the
\* same result
C8_Witness ==
  \E t, u \in Threads :
    /\ t # u
    /\ req[t].pc = "done" /\ req[u].pc = "done"
    /\ req[t].method = "POST"
    /\ req[t].form = req[u].form
    /\ "rho" \notin DOMAIN req[t].form
    /\ req[t].results.k = "result"
    /\ req[t].response = req[u].response

\* the scenario of the specification: L=100, D=0.1, Q=0.01, rho=1000, mu=0.001
Scenario == Form(FormL, FormD, FormQ, FormRho, FormMu)

\* C9 as stated: the scenario yields V = 1.2732, Re = 127324, f = 0.01697,
\* hf = 1.395, delta_P = 13691 Pa (13.69 kPa) to the digits shown, and no
\* laminar warning.
C9_ScenarioAsStated ==
  \A t \in Threads :
    LET r == req[t]
    IN r.method = "POST" /\ r.form = Scenario /\ r.pc = "done"
         => /\ r.results.k = "result"
            /\ Format(r.V, 4) = <<"1", ".", "2", "7", "3", "2">>
            /\ Format(r.Re, 0) = <<"1", "2", "7", "3", "2", "4">>
            /\ Format(r.f, 5) = <<"0", ".", "0", "1", "6", "9", "7">>
            /\ Format(r.hf, 3) = <<"1", ".", "3", "9", "5">>
            /\ Format(r.delta_P, 0) = <<"1", "3", "6", "9", "1">>
            /\ Format(PyDiv(r.delta_P, Dec(1000, 0)), 2) = <<"1", "3", ".", "6", "9">>
            /\ r.results.warning = ""

\* C9, amended: the scenario yields V = 1.2732, Re = 127324, f = 0.01675,
\* hf = 1.384, delta_P = 13577 Pa (13.58 kPa) to the digits shown, displayed
\* as "1.273 m/s", "127324", "0.0167", "1.384 m" and "13577 Pa (13.58 kPa)",
\* and no laminar warning.
C9_Scenario ==
  \A t \in Threads :
    LET r == req[t]
    IN r.method = "POST" /\ r.form = Scenario /\ r.pc = "done"
         => /\ r.results.k = "result"
            /\ Format(r.V, 4) = <<"1", ".", "2", "7", "3", "2">>
            /\ Format(r.Re, 0) = <<"1", "2", "7", "3", "2", "4">>
            /\ Format(r.f, 5) = <<"0", ".", "0", "1", "6", "7", "5">>
            /\ Format(r.hf, 3) = <<"1", ".", "3", "8", "4">>
            /\ Format(r.delta_P, 0) = <<"1", "3", "5", "7", "7">>
            /\ Format(PyDiv(r.delta_P, Dec(1000, 0)), 2) = <<"1", "3", ".", "5", "8">>
            /\ r.results.V = <<"1", ".", "2", "7", "3", " ", "m", "/", "s">>
            /\ r.results.Re = <<"1", "2", "7", "3", "2", "4">>
            /\ r.results.f = <<"0", ".", "0", "1", "6", "7">>
            /\ r.results.hf = <<"1", ".", "3", "8", "4", " ", "m">>
            /\ r.results.delta_P
                 = <<"1", "3", "5", "7", "7", " ", "P", "a", " ", "(",
                     "1", "3", ".", "5", "8", " ", "k", "P", "a", ")">>
            /\ r.results.warning = ""
            /\ r.response.page.warningAlert = ""

\* the scenario's result, rendered
C9_Witness ==
  \E t \in Threads :
    /\ req[t].pc = "done"
    /\ req[t].method = "POST"
    /\ req[t].form = Scenario
    /\ req[t].response.status = 200
    /\ req[t].response.page.resultBox.k = "box"

\* a finite float above zero
IsPositive(x) == IsFin(x) /\ ~IsZero(x) /\ x.s = 1

PositiveInputs(r) ==
  IsPositive(r.L) /\ IsPositive(r.D) /\ IsPositive(r.Q) /\ IsPositive(r.rho)
  /\ IsPositive(r.mu)

\* the text before the first space
FirstWord(str) ==
  SubSeq(str, 1, (CHOOSE i \in 1..Len(str) :
                    str[i] = " " /\ \A j \in 1..(i - 1) : str[j] # " ") - 1)

\* the displayed head loss read back as a number
DisplayedHf(r) == ParseFloat(FirstWord(r.results.hf))

\* rho * 9.81 * hf from the displayed head loss, to 0 decimals
RecomputedPa(r) == Format(FMul(FMul(r.rho, Dec(981, -2)), DisplayedHf(r)), 0)

\* the Pa value of the displayed pressure drop
DisplayedPa(r) == FirstWord(r.results.delta_P)

\* C10 as stated: for a successful POST with positive inputs, rho * 9.81 * hf
\* recomputed from the displayed hf and rounded to 0 decimals is the integer
\* of the displayed delta_P.
C10_RoundTripExact ==
  \A t \in Threads :
    LET r == req[t]
    IN r.method = "POST" /\ r.results.k = "result" /\ PositiveInputs(r)
         => RecomputedPa(r) = DisplayedPa(r)

\* C10, amended: for a successful POST with finite positive inputs, the
\* integer recomputed from the displayed hf and the integer of the displayed
\* delta_P differ by no more than rho * 9.81 * 0.0005 + 1: the rounding of hf
\* to 3 decimals, scaled by rho * g, and the two roundings to integers.
C10_RoundTripWithin ==
  \A t \in Threads :
    LET r == req[t]
    IN r.method = "POST" /\ r.results.k = "result" /\ PositiveInputs(r)
         => FGe(FAdd(FMul(FMul(r.rho, Dec(981, -2)), Dec(5, -4)), Dec(1, 0)),
                Abs(FSub(ParseFloat(RecomputedPa(r)), ParseFloat(DisplayedPa(r)))))

\* a result with positive inputs whose two integers are not the same
C10_Witness ==
  \E t \in Threads :
    /\ req[t].pc = "done"
    /\ req[t].results.k = "result"
    /\ PositiveInputs(req[t])
    /\ RecomputedPa(req[t]) # DisplayedPa(req[t])

====
